---- MODULE Spec2Model ----
(***************************************************************************)
(* Model of MLMODELPY/Data_pre_processing.py: the transform adjuster, the  *)
(* per-date extractor, the dataset assembler and the module-level          *)
(* post-processing (filter, dropna, normalisation, save, statistics,       *)
(* plots).                                                                 *)
(*                                                                         *)
(* Numbers.  World coordinates, affine coefficients and channel values are *)
(* exact rationals [n |-> numerator, d |-> denominator] with d > 0; an     *)
(* affine transform is the integer matrix (a b c / d e f / 0 0 w) standing *)
(* for the coefficients a/w .. f/w.  Python's round() is round-half-even.  *)
(*                                                                         *)
(* Tables.  A pandas table is a sequence of records.  A record's `na` is   *)
(* the set of its columns that hold NaN (what isna() reports).  The fields *)
(* `gt` (position of the source row in the ground-truth table) and `src`   *)
(* (the source row) are history fields: the program does not store them.   *)
(***************************************************************************)
EXTENDS Integers, Sequences, FiniteSets, TLC

\* ------------------------------------------------------------------ bounds
MaxRows == 2
MaxDates == 2

\* --------------------------------------------------------------- rationals
Rat(n, d) == [n |-> n, d |-> d]

LeqRat(p, q) == p.n * q.d <= q.n * p.d

EqRat(p, q) == p.n * q.d = q.n * p.d

\* Python 3 round(): nearest integer, ties to the even one.
RoundHalfEven(q) ==
    LET fl == q.n \div q.d
        r2 == 2 * (q.n - fl * q.d)
    IN  IF r2 < q.d THEN fl
        ELSE IF r2 > q.d THEN fl + 1
        ELSE IF fl % 2 = 0 THEN fl ELSE fl + 1

\* ------------------------------------------------------- affine transforms
Affine(a, b, c, d, e, f) == [a |-> a, b |-> b, c |-> c, d |-> d, e |-> e, f |-> f, w |-> 1]

\* Affine.scale(z): the uniform scaling z on both axes.
AffineScale(z) == [a |-> z.n, b |-> 0, c |-> 0, d |-> 0, e |-> z.n, f |-> 0, w |-> z.d]

\* s * t for two transforms: the matrix product.
AffineMul(s, t) ==
    [a |-> s.a * t.a + s.b * t.d,
     b |-> s.a * t.b + s.b * t.e,
     c |-> s.a * t.c + s.b * t.f + s.c * t.w,
     d |-> s.d * t.a + s.e * t.d,
     e |-> s.d * t.b + s.e * t.e,
     f |-> s.d * t.c + s.e * t.f + s.f * t.w,
     w |-> s.w * t.w]

\* ~t: the inverse transform, denominator kept positive.
AffineInverse(t) ==
    LET det == t.a * t.e - t.b * t.d
        sg  == IF det < 0 THEN -1 ELSE 1
    IN  [a |-> sg * t.w * t.e,
         b |-> sg * (0 - t.w * t.b),
         c |-> sg * (t.b * t.f - t.e * t.c),
         d |-> sg * (0 - t.w * t.d),
         e |-> sg * t.w * t.a,
         f |-> sg * (t.d * t.c - t.a * t.f),
         w |-> sg * det]

\* t * (x, y): the pair (a x + b y + c, d x + e y + f).
AffineApply(t, x, y) ==
    << Rat(t.a * x.n * y.d + t.b * y.n * x.d + t.c * x.d * y.d, t.w * x.d * y.d),
       Rat(t.d * x.n * y.d + t.e * y.n * x.d + t.f * x.d * y.d, t.w * x.d * y.d) >>

\* The same transform with the scaling applied on the left: the origin is scaled too.
adjust_transform_scaling_origin(transform, zoom) ==
    IF EqRat(zoom, Rat(1, 1)) THEN transform ELSE AffineMul(AffineScale(zoom), transform)

adjust_transform_for_zoom(transform, zoom) ==
    IF EqRat(zoom, Rat(1, 1)) THEN transform ELSE AffineMul(transform, AffineScale(zoom))

\* rasterio.windows.bounds(Window(0, 0, width, height), transform):
\* (left, bottom, right, top).
WindowBounds(width, height, transform) ==
    LET lb == AffineApply(transform, Rat(0, 1), Rat(height, 1))
        rt == AffineApply(transform, Rat(width, 1), Rat(0, 1))
    IN  << lb[1], lb[2], rt[1], rt[2] >>

\* ------------------------------------------------------------------ inputs
dates_to_process == << "09.20.2024", "10.04.2024", "10.11.2024" >>

DateNames == { dates_to_process[i] : i \in DOMAIN dates_to_process }

\* The date lists handed to create_training_dataset: distinct dates.
DateLists ==
    UNION { { s \in [1..n -> DateNames] : \A i, j \in 1..n : s[i] = s[j] => i = j }
            : n \in 1..MaxDates }

\* The zoom factors: the identity, the script's 1.001, and one half.
ZoomFactors == { Rat(1, 1), Rat(1001, 1000), Rat(1, 2) }

\* The raster stored as <date>.tif: size, band count, transform, pixels
\* (pixels[<<row, col>>] is the tuple of band values at that array index).
RasterFile(date) ==
    IF date = dates_to_process[1] THEN
        [width |-> 10, height |-> 10, count |-> 3,
         transform |-> Affine(1, 0, 0, 0, -1, 10),
         pixels |-> [p \in (0..9) \X (0..9) |->
                        IF p = <<5, 5>> THEN <<10, 20, 30>>
                        ELSE IF p = <<2, 8>> THEN <<40, 0, 50>>
                        ELSE <<200, 100, 50>>]]
    ELSE IF date = dates_to_process[2] THEN
        [width |-> 3, height |-> 6, count |-> 3,
         transform |-> Affine(1, 0, 0, 0, -1, 6),
         pixels |-> [p \in (0..5) \X (0..2) |->
                        IF p = <<3, 0>> THEN <<255, 128, 1>>
                        ELSE <<7, 0, 9>>]]
    ELSE
        [width |-> 4, height |-> 4, count |-> 2,
         transform |-> Affine(2, 0, 0, 0, -2, 8),
         pixels |-> [p \in (0..3) \X (0..3) |-> <<11, 12>>]]

\* Ground-truth rows after the reprojection of line 50 (UTM_X, UTM_Y).
GTRow(x, y, chl, ph, na) ==
    [UTM_X |-> x, UTM_Y |-> y, Chlorophyll |-> chl, PlantHealth |-> ph, na |-> na]

GTRows ==
    { GTRow(Rat(54, 10), Rat(54, 10), 30, "", {"Plant health"}),
      GTRow(Rat(25, 10), Rat(25, 10), 31, "Stressed", {}),
      GTRow(Rat(-10, 10), Rat(-10, 10), 32, "Healthy", {}),
      GTRow(Rat(30, 10), Rat(56, 10), 35, "Healthy", {}) }

GTTables == UNION { [1..n -> GTRows] : n \in 0..MaxRows }

\* ------------------------------------------------------------------- state
VARIABLES
    zoom_factor,       \* the zoom factor of the run
    dates,             \* the date list given to create_training_dataset
    pc,                \* position of the script
    di,                \* index in dates of the date being processed
    open_rasters,      \* dates whose raster is open, in opening order
    io,                \* opens and full-band reads of the current date's raster
    transform,         \* the adjusted transform of the open raster
    adjusted_bounds,   \* (left, bottom, right, top) under the adjusted transform
    gt_data,           \* the ground-truth table of the current date
    training_data,     \* the records emitted for the current date
    combined_data,     \* the per-date tables appended so far
    training_dataset,  \* the module-level table
    output_file,       \* << >> while unwritten, <<table>> once written
    stats,             \* << >> until printed, then <<the printed counts>>
    plots,             \* number of plots shown
    failed             \* 0, or the index of the date whose file could not be opened

vars == << zoom_factor, dates, pc, di, open_rasters, io, transform, adjusted_bounds,
           gt_data, training_data, combined_data, training_dataset,
           output_file, stats, plots, failed >>

NoTransform == Affine(0, 0, 0, 0, 0, 0)

NoBounds == << Rat(0, 1), Rat(0, 1), Rat(0, 1), Rat(0, 1) >>

Init ==
    /\ zoom_factor \in ZoomFactors
    /\ dates \in DateLists
    /\ pc = "next_date"
    /\ di = 1
    /\ open_rasters = << >>
    /\ io = [opens |-> 0, reads |-> 0]
    /\ transform = NoTransform
    /\ adjusted_bounds = NoBounds
    /\ gt_data = << >>
    /\ training_data = << >>
    /\ combined_data = << >>
    /\ training_dataset = << >>
    /\ output_file = << >>
    /\ stats = << >>
    /\ plots = 0
    /\ failed = 0

\* ------------------------------------------------ per-date extractor: open
\* with rasterio.open(...) as dataset, the zoom adjustment and the adjusted bounds.
OpenRaster ==
    /\ pc = "next_date"
    /\ di <= Len(dates)
    /\ LET ds == RasterFile(dates[di])
           t  == adjust_transform_for_zoom(ds.transform, zoom_factor)
       IN  /\ transform' = t
           /\ adjusted_bounds' = WindowBounds(ds.width, ds.height, t)
    /\ open_rasters' = Append(open_rasters, dates[di])
    /\ io' = [opens |-> 1, reads |-> 0]
    /\ gt_data' = << >>
    /\ training_data' = << >>
    /\ pc' = "opened"
    /\ UNCHANGED << zoom_factor, dates, di, combined_data, training_dataset,
                    output_file, stats, plots, failed >>

\* A raster open failure swallowed: the date is skipped and the loop goes on.
OpenRasterFailSkipsDate ==
    /\ pc = "next_date"
    /\ di <= Len(dates)
    /\ di' = di + 1
    /\ failed' = di
    /\ UNCHANGED << zoom_factor, dates, pc, open_rasters, io, transform, adjusted_bounds,
                    gt_data, training_data, combined_data, training_dataset,
                    output_file, stats, plots >>

\* rasterio.open raises: nothing catches it, the script ends.
OpenRasterFail ==
    /\ pc = "next_date"
    /\ di <= Len(dates)
    /\ pc' = "aborted"
    /\ failed' = di
    /\ UNCHANGED << zoom_factor, dates, di, open_rasters, io, transform, adjusted_bounds,
                    gt_data, training_data, combined_data, training_dataset,
                    output_file, stats, plots >>

\* pd.read_csv, the header strip, the reprojection; training_data = [].
ReadCsv ==
    /\ pc = "opened"
    /\ \E t \in GTTables : gt_data' = t
    /\ training_data' = << >>
    /\ pc' = "rows"
    /\ UNCHANGED << zoom_factor, dates, di, open_rasters, io, transform, adjusted_bounds,
                    combined_data, training_dataset, output_file, stats, plots, failed >>

\* pd.read_csv raises: the with block closes the raster, the script ends.
ReadCsvFail ==
    /\ pc = "opened"
    /\ open_rasters' = SubSeq(open_rasters, 1, Len(open_rasters) - 1)
    /\ pc' = "aborted"
    /\ failed' = di
    /\ UNCHANGED << zoom_factor, dates, di, io, transform, adjusted_bounds,
                    gt_data, training_data, combined_data, training_dataset,
                    output_file, stats, plots >>

\* ------------------------------------------------ per-date extractor: rows
\* adjusted_bounds[0] <= utm_x <= adjusted_bounds[2] and
\* adjusted_bounds[1] <= utm_y <= adjusted_bounds[3]
InBounds(bounds, utm_x, utm_y) ==
    /\ LeqRat(bounds[1], utm_x) /\ LeqRat(utm_x, bounds[3])
    /\ LeqRat(bounds[2], utm_y) /\ LeqRat(utm_y, bounds[4])

\* pixel_row, pixel_col = ~transform * (utm_x, utm_y), each int(round(.)):
\* the first component of the product goes to pixel_row, the second to pixel_col.
ToPixel(t, utm_x, utm_y) ==
    LET p == AffineApply(AffineInverse(t), utm_x, utm_y)
    IN  [pixel_row |-> RoundHalfEven(p[1]), pixel_col |-> RoundHalfEven(p[2])]

\* 0 <= pixel_row < dataset.height and 0 <= pixel_col < dataset.width
InImage(ds, px) ==
    /\ 0 <= px.pixel_row /\ px.pixel_row < ds.height
    /\ 0 <= px.pixel_col /\ px.pixel_col < ds.width

\* dataset.read(band): the whole band as an array indexed [row, col].
ReadBand(ds, band) ==
    [p \in (0..(ds.height - 1)) \X (0..(ds.width - 1)) |-> ds.pixels[p][band]]

\* The dictionary appended to training_data.
SampleRecord(date, px, red, green, blue, row, gt) ==
    [Date |-> date, PixelRow |-> px.pixel_row, PixelCol |-> px.pixel_col,
     Red |-> Rat(red, 1), Green |-> Rat(green, 1), Blue |-> Rat(blue, 1),
     Chlorophyll |-> row.Chlorophyll, PlantHealth |-> row.PlantHealth,
     na |-> IF "Plant health" \in row.na THEN {"Plant Health"} ELSE {},
     gt |-> gt, src |-> row]

\* A placeholder record with no pixel and no sample, as a skipped row would
\* leave behind if it were kept in the table.
SkippedRecord(date, row, gt) ==
    [Date |-> date, PixelRow |-> 0, PixelCol |-> 0,
     Red |-> Rat(0, 1), Green |-> Rat(0, 1), Blue |-> Rat(0, 1),
     Chlorophyll |-> row.Chlorophyll, PlantHealth |-> row.PlantHealth,
     na |-> {"Pixel Row", "Pixel Col", "Red", "Green", "Blue"}
            \cup (IF "Plant health" \in row.na THEN {"Plant Health"} ELSE {}),
     gt |-> gt, src |-> row]

\* One iteration of the loop over gt_data.iterrows(), on the pair (records
\* so far, full-band reads so far); only that a skipped row is kept as an
\* all-NaN record.
ProcessRowKeepingSkipped(ds, date, t, bounds, row, gt, acc) ==
    IF ~InBounds(bounds, row.UTM_X, row.UTM_Y)
    THEN [acc EXCEPT !.training_data = Append(@, SkippedRecord(date, row, gt))]
    ELSE LET px == ToPixel(t, row.UTM_X, row.UTM_Y)
             at == << px.pixel_row, px.pixel_col >>
         IN  IF ~InImage(ds, px) THEN acc
             ELSE IF ds.count < 3 THEN [acc EXCEPT !.reads = @ + ds.count]
             ELSE [training_data |->
                       Append(acc.training_data,
                              SampleRecord(date, px, ReadBand(ds, 1)[at], ReadBand(ds, 2)[at],
                                           ReadBand(ds, 3)[at], row, gt)),
                   reads |-> acc.reads + 3]

\* One iteration of the loop over gt_data.iterrows(), on the pair (records
\* so far, full-band reads so far):
\*   the coordinate check fails: print, continue;
\*   the dimension check fails: print (the else branch);
\*   dataset.read(k) raises IndexError for a band the raster does not have:
\*     the bands before it were read in full, the row is dropped;
\*   otherwise three full-band reads, each indexed at [pixel_row, pixel_col],
\*     and one record appended.
ProcessRow(ds, date, t, bounds, row, gt, acc) ==
    IF ~InBounds(bounds, row.UTM_X, row.UTM_Y) THEN acc
    ELSE LET px == ToPixel(t, row.UTM_X, row.UTM_Y)
             at == << px.pixel_row, px.pixel_col >>
         IN  IF ~InImage(ds, px) THEN acc
             ELSE IF ds.count < 3 THEN [acc EXCEPT !.reads = @ + ds.count]
             ELSE [training_data |->
                       Append(acc.training_data,
                              SampleRecord(date, px, ReadBand(ds, 1)[at], ReadBand(ds, 2)[at],
                                           ReadBand(ds, 3)[at], row, gt)),
                   reads |-> acc.reads + 3]

RECURSIVE ProcessRowsFrom(_, _, _, _, _, _, _)
\* The loop from row gt on, in table order.
ProcessRowsFrom(ds, date, t, bounds, rows, gt, acc) ==
    IF gt > Len(rows) THEN acc
    ELSE ProcessRowsFrom(ds, date, t, bounds, rows, gt + 1,
                         ProcessRow(ds, date, t, bounds, rows[gt], gt, acc))

\* for _, row in gt_data.iterrows(): ... , the whole loop.
ProcessRows ==
    /\ pc = "rows"
    /\ LET acc == ProcessRowsFrom(RasterFile(dates[di]), dates[di], transform,
                                  adjusted_bounds, gt_data, 1,
                                  [training_data |-> training_data, reads |-> io.reads])
       IN  /\ training_data' = acc.training_data
           /\ io' = [io EXCEPT !.reads = acc.reads]
    /\ pc' = "loop_done"
    /\ UNCHANGED << zoom_factor, dates, di, open_rasters, transform, adjusted_bounds,
                    gt_data, combined_data, training_dataset, output_file, stats,
                    plots, failed >>

\* The with block closes the raster, pd.DataFrame(training_data) is returned
\* (the locals of process_geotiff_and_gt are gone) and create_training_dataset
\* appends the table to combined_data.
EndExtract ==
    /\ pc = "loop_done"
    /\ open_rasters' = SubSeq(open_rasters, 1, Len(open_rasters) - 1)
    /\ combined_data' = Append(combined_data, training_data)
    /\ io' = [opens |-> 0, reads |-> 0]
    /\ transform' = NoTransform
    /\ adjusted_bounds' = NoBounds
    /\ gt_data' = << >>
    /\ training_data' = << >>
    /\ di' = di + 1
    /\ pc' = "next_date"
    /\ UNCHANGED << zoom_factor, dates, training_dataset, output_file, stats, plots, failed >>

\* ------------------------------------------------------- dataset assembler
RECURSIVE ConcatReversed(_)
\* The tables joined last table first.
ConcatReversed(tables) ==
    IF tables = << >> THEN << >>
    ELSE ConcatReversed(Tail(tables)) \o Head(tables)

RECURSIVE Concat(_)
\* pd.concat(tables, ignore_index=True): the rows of the tables, in list order.
Concat(tables) ==
    IF tables = << >> THEN << >>
    ELSE Head(tables) \o Concat(Tail(tables))

\* return pd.concat(combined_data, ignore_index=True); the result is bound to
\* training_dataset.  The date list is not empty, so neither is combined_data.
create_training_dataset_return ==
    /\ pc = "next_date"
    /\ di > Len(dates)
    /\ training_dataset' = Concat(combined_data)
    /\ pc' = "filter"
    /\ UNCHANGED << zoom_factor, dates, di, open_rasters, io, transform, adjusted_bounds,
                    gt_data, training_data, combined_data, output_file, stats,
                    plots, failed >>

\* ---------------------------------------------------------- post-processing
PostUnchanged ==
    UNCHANGED << zoom_factor, dates, di, open_rasters, io, transform, adjusted_bounds,
                 gt_data, training_data, combined_data, failed >>

\* column != 0 on one cell: a NaN cell compares unequal to 0.
CellNonZero(rec, column, value) == column \in rec.na \/ value.n # 0

\* Only the Red column is compared with 0.
RedNonZero(rec) == CellNonZero(rec, "Red", rec.Red)

\* (Red != 0) & (Green != 0) & (Blue != 0)
NonZeroRGB(rec) ==
    /\ CellNonZero(rec, "Red", rec.Red)
    /\ CellNonZero(rec, "Green", rec.Green)
    /\ CellNonZero(rec, "Blue", rec.Blue)

\* dropna(subset=['Plant Health']) keeps the rows whose label is present.
HasPlantHealth(rec) == "Plant Health" \notin rec.na

\* One cell divided by 255.0.
DivideBy255(value) == Rat(value.n, value.d * 255)

\* The division leaves the Blue column out.
NormalizeRedGreen(rec) ==
    [rec EXCEPT !.Red = DivideBy255(@), !.Green = DivideBy255(@)]

\* training_dataset[['Red', 'Green', 'Blue']] /= 255.0 on one row.
NormalizeRGB(rec) ==
    [rec EXCEPT !.Red = DivideBy255(@), !.Green = DivideBy255(@), !.Blue = DivideBy255(@)]

\* Every per-date table was empty, so the concatenation has no columns and
\* training_dataset['Red'] raises KeyError.
FilterKeyError ==
    /\ pc = "filter"
    /\ training_dataset = << >>
    /\ pc' = "aborted"
    /\ UNCHANGED << training_dataset, output_file, stats, plots >>
    /\ PostUnchanged

\* Remove rows with zero RGB values.
FilterZero ==
    /\ pc = "filter"
    /\ training_dataset # << >>
    /\ training_dataset' = SelectSeq(training_dataset, NonZeroRGB)
    /\ pc' = "dropna"
    /\ UNCHANGED << output_file, stats, plots >>
    /\ PostUnchanged

\* Remove rows with missing target labels.
DropNa ==
    /\ pc = "dropna"
    /\ training_dataset' = SelectSeq(training_dataset, HasPlantHealth)
    /\ pc' = "normalize"
    /\ UNCHANGED << output_file, stats, plots >>
    /\ PostUnchanged

\* Normalize RGB values.
Normalize ==
    /\ pc = "normalize"
    /\ training_dataset' = [i \in DOMAIN training_dataset |-> NormalizeRGB(training_dataset[i])]
    /\ pc' = "save"
    /\ UNCHANGED << output_file, stats, plots >>
    /\ PostUnchanged

\* os.makedirs and to_csv.
Save ==
    /\ pc = "save"
    /\ output_file' = << training_dataset >>
    /\ pc' = "stats"
    /\ UNCHANGED << training_dataset, stats, plots >>
    /\ PostUnchanged

\* The number of rows whose 'Pixel Col' is NaN.
PixelColNaCount(table) == Cardinality({ i \in DOMAIN table : "Pixel Col" \in table[i].na })

\* The debugging statistics; the percentage of an empty table is nan.
Statistics ==
    /\ pc = "stats"
    /\ LET total_points == Len(training_dataset) + PixelColNaCount(training_dataset)
           valid_points == Len(training_dataset)
       IN  stats' = << [total_points |-> total_points,
                        valid_points |-> valid_points,
                        out_of_bounds_points |-> total_points - valid_points,
                        percentage |-> Rat(valid_points * 100, total_points)] >>
    /\ pc' = "plot"
    /\ UNCHANGED << training_dataset, output_file, plots >>
    /\ PostUnchanged

\* One of the three plots: the raster of a fixed date is reopened, its first
\* band read and shown with the retained points, and closed again.
Plot ==
    /\ pc = "plot"
    /\ plots < Len(dates_to_process)
    /\ plots' = plots + 1
    /\ pc' = IF plots + 1 = Len(dates_to_process) THEN "done" ELSE "plot"
    /\ UNCHANGED << training_dataset, output_file, stats >>
    /\ PostUnchanged

\* The raster of a plot cannot be opened: the script ends there.
PlotOpenFail ==
    /\ pc = "plot"
    /\ plots < Len(dates_to_process)
    /\ pc' = "aborted"
    /\ UNCHANGED << training_dataset, output_file, stats, plots >>
    /\ PostUnchanged

\* --------------------------------------------------------- specification
Next ==
    \/ OpenRaster
    \/ OpenRasterFail
    \/ ReadCsv
    \/ ReadCsvFail
    \/ ProcessRows
    \/ EndExtract
    \/ create_training_dataset_return
    \/ FilterKeyError
    \/ FilterZero
    \/ DropNa
    \/ Normalize
    \/ Save
    \/ Statistics
    \/ Plot
    \/ PlotOpenFail

Spec == Init /\ [][Next]_vars

\* ------------------------------------------------------ auxiliary notions
TableRecords(table) == { table[i] : i \in DOMAIN table }

\* Every record the run holds: in the table being built, in the per-date
\* tables, in the module-level table and in the written file.
EmittedRecords ==
    TableRecords(training_data)
        \cup UNION { TableRecords(combined_data[k]) : k \in DOMAIN combined_data }
        \cup TableRecords(training_dataset)
        \cup UNION { TableRecords(output_file[k]) : k \in DOMAIN output_file }

LtRat(p, q) == p.n * q.d < q.n * p.d

\* The adjusted transform of a date's raster in this run.
AdjustedTransformOf(date) == adjust_transform_for_zoom(RasterFile(date).transform, zoom_factor)

\* The fractional pixel of a world point: an affine transform maps
\* (column, row) to (x, y), so its inverse yields (column, row).
FractionalPixel(date, row) ==
    LET p == AffineApply(AffineInverse(AdjustedTransformOf(date)), row.UTM_X, row.UTM_Y)
    IN  [col |-> p[1], row |-> p[2]]

RoundedRow(date, row) == RoundHalfEven(FractionalPixel(date, row).row)

RoundedCol(date, row) == RoundHalfEven(FractionalPixel(date, row).col)

PixelInsideRaster(date, row) ==
    /\ 0 <= RoundedRow(date, row) /\ RoundedRow(date, row) < RasterFile(date).height
    /\ 0 <= RoundedCol(date, row) /\ RoundedCol(date, row) < RasterFile(date).width

AdjustedBoundsOf(date) ==
    WindowBounds(RasterFile(date).width, RasterFile(date).height, AdjustedTransformOf(date))

StrictlyInsideBounds(date, row) ==
    LET b == AdjustedBoundsOf(date)
    IN  /\ LtRat(b[1], row.UTM_X) /\ LtRat(row.UTM_X, b[3])
        /\ LtRat(b[2], row.UTM_Y) /\ LtRat(row.UTM_Y, b[4])

\* The loop over the rows of dates[di] is over: training_data is the table
\* process_geotiff_and_gt returns.
LoopDone == pc = "loop_done"

DateIndex(date) == CHOOSE k \in DOMAIN dates : dates[k] = date

Channels(rec) == << rec.Red, rec.Green, rec.Blue >>

\* The band values of the raster at the array index the record was sampled at.
RasterValues(rec) == RasterFile(rec.Date).pixels[<< rec.PixelRow, rec.PixelCol >>]

\* -------------------------------------------------------------------- C1
\* C1: for every emitted record, 'Pixel Row' is the rounded row (Y-derived)
\* component and 'Pixel Col' the rounded column (X-derived) component of the
\* inverse adjusted transform at the source point; under the transform
\* a=1, e=-1, f=10 and zoom 1.0 that is Pixel Row = round(10 - Y) and
\* Pixel Col = round(X).
C1_PixelRowIsRowComponent ==
    \A rec \in EmittedRecords :
        /\ rec.PixelRow = RoundedRow(rec.Date, rec.src)
        /\ rec.PixelCol = RoundedCol(rec.Date, rec.src)
        /\ (rec.Date = dates_to_process[1] /\ zoom_factor = Rat(1, 1)) =>
              /\ rec.PixelRow = RoundHalfEven(Rat(10 * rec.src.UTM_Y.d - rec.src.UTM_Y.n,
                                                  rec.src.UTM_Y.d))
              /\ rec.PixelCol = RoundHalfEven(rec.src.UTM_X)

\* -------------------------------------------------------------------- C2
\* C2: when the extractor is about to return the table of a date, every ground-truth row
\* of that date that lies strictly inside the adjusted bounds and whose pixel
\* (row, col) lies inside [0, height) x [0, width) has a record in the table
\* with the same date and the row's Chlorophyll and Plant health values
\* (rasters with the three bands the data model requires).
C2_ValidRowHasRecord ==
    LoopDone =>
        \A i \in DOMAIN gt_data :
            ( /\ RasterFile(dates[di]).count >= 3
              /\ StrictlyInsideBounds(dates[di], gt_data[i])
              /\ PixelInsideRaster(dates[di], gt_data[i]) )
            => \E rec \in TableRecords(training_data) :
                  /\ rec.gt = i
                  /\ rec.Date = dates[di]
                  /\ rec.Chlorophyll = gt_data[i].Chlorophyll
                  /\ rec.PlantHealth = gt_data[i].PlantHealth
                  /\ ("Plant Health" \in rec.na) = ("Plant health" \in gt_data[i].na)

\* -------------------------------------------------------------------- C3
\* C3: no record exists for a ground-truth row whose projected X or Y is
\* outside the adjusted bounds, nor for a row whose rounded pixel row is
\* outside [0, height) or rounded pixel column outside [0, width).
C3_NoRecordForOutsideRow ==
    \A rec \in EmittedRecords :
        /\ InBounds(AdjustedBoundsOf(rec.Date), rec.src.UTM_X, rec.src.UTM_Y)
        /\ PixelInsideRaster(rec.Date, rec.src)

\* -------------------------------------------------------------------- C4
\* C4: no record of the written dataset has a Red, Green or Blue value that
\* was 0 in the raster, and none has a missing 'Plant Health' label.
C4_NoZeroChannelNoMissingLabel ==
    \A k \in DOMAIN output_file : \A rec \in TableRecords(output_file[k]) :
        /\ \A b \in 1..3 : RasterValues(rec)[b] # 0 /\ Channels(rec)[b].n # 0
        /\ "Plant Health" \notin rec.na

\* A dataset was written with a record in it, after a record with a zero
\* channel and a record with a missing label had been assembled.
C4_Witness ==
    /\ output_file # << >>
    /\ output_file[1] # << >>
    /\ \E rec \in TableRecords(Concat(combined_data)) : \E b \in 1..3 : Channels(rec)[b].n = 0
    /\ \E rec \in TableRecords(Concat(combined_data)) :
          "Plant Health" \in rec.na /\ \A b \in 1..3 : Channels(rec)[b].n # 0

\* -------------------------------------------------------------------- C5
\* C5: every Red, Green and Blue value of the written dataset is the sampled
\* 8-bit value v divided by 255 exactly once, with 0 < v <= 255, and so lies
\* in [0, 1].
C5_NormalizedOnce ==
    \A k \in DOMAIN output_file : \A rec \in TableRecords(output_file[k]) :
        \A b \in 1..3 :
            LET value == Channels(rec)[b]
            IN  /\ value.d = 255
                /\ value.n = RasterValues(rec)[b]
                /\ 0 < value.n /\ value.n <= 255
                /\ LeqRat(Rat(0, 1), value) /\ LeqRat(value, Rat(1, 1))

\* A dataset was written that holds a record sampled at a pixel of value 255.
C5_Witness ==
    /\ output_file # << >>
    /\ \E rec \in TableRecords(output_file[1]) :
          /\ RasterValues(rec)[1] = 255
          /\ EqRat(rec.Red, Rat(1, 1))

\* -------------------------------------------------------------------- C6
\* The table create_training_dataset returned is in training_dataset.
Assembled == pc = "filter"

\* Records of an earlier date precede those of a later date, records of one
\* date keep the ground-truth order, and every record's date is in the list.
InDateThenRowOrder(table) ==
    /\ \A i \in DOMAIN table : \E k \in DOMAIN dates : dates[k] = table[i].Date
    /\ \A i, j \in DOMAIN table :
          i < j =>
              /\ DateIndex(table[i].Date) <= DateIndex(table[j].Date)
              /\ table[i].Date = table[j].Date => table[i].gt < table[j].gt

\* C6 as stated: the assembled table is in input-date order, keeps the
\* ground-truth order within a date, carries no date outside the list, and no
\* date of the list is missing from it.
C6_NoDateDropped ==
    Assembled =>
        /\ InDateThenRowOrder(training_dataset)
        /\ \A k \in DOMAIN dates :
              \E rec \in TableRecords(training_dataset) : rec.Date = dates[k]

\* C6 amended: the assembled table is in input-date order, keeps the
\* ground-truth order within a date, carries no date outside the list, and
\* holds exactly the records the extractor emitted for each date; a date for
\* which it emitted none has no record in the table.
C6_ConcatInDateOrder ==
    Assembled =>
        /\ InDateThenRowOrder(training_dataset)
        /\ \A k \in DOMAIN dates :
              { rec \in TableRecords(training_dataset) : rec.Date = dates[k] }
                  = TableRecords(combined_data[k])
        /\ \A i, j \in DOMAIN training_dataset :
              training_dataset[i] = training_dataset[j] => i = j

\* Two dates were assembled, the first with two records and the second with one.
C6_Witness ==
    /\ Assembled
    /\ Len(dates) = 2
    /\ Len(combined_data[1]) = 2
    /\ Len(combined_data[2]) >= 1
    /\ Len(training_dataset) = Len(combined_data[1]) + Len(combined_data[2])

\* -------------------------------------------------------------------- C7
\* C7: with zoom 1.0 the adjusted transform is the raster's transform and the
\* adjusted bounds are the raster's own bounds (c, f + e*height, c + a*width,
\* f); with any other factor z the coefficients a, b, d, e are multiplied by
\* z and the origin (c, f) is unchanged.
C7_ZoomIdentityAndScaling ==
    pc \in {"opened", "rows"} =>
        LET ds == RasterFile(dates[di])
            t0 == ds.transform
            z  == zoom_factor
        IN  /\ EqRat(z, Rat(1, 1)) =>
                /\ transform = t0
                /\ EqRat(adjusted_bounds[1], Rat(t0.c, t0.w))
                /\ EqRat(adjusted_bounds[2], Rat(t0.f + t0.e * ds.height, t0.w))
                /\ EqRat(adjusted_bounds[3], Rat(t0.c + t0.a * ds.width, t0.w))
                /\ EqRat(adjusted_bounds[4], Rat(t0.f, t0.w))
            /\ ~EqRat(z, Rat(1, 1)) =>
                /\ EqRat(Rat(transform.a, transform.w), Rat(t0.a * z.n, t0.w * z.d))
                /\ EqRat(Rat(transform.b, transform.w), Rat(t0.b * z.n, t0.w * z.d))
                /\ EqRat(Rat(transform.d, transform.w), Rat(t0.d * z.n, t0.w * z.d))
                /\ EqRat(Rat(transform.e, transform.w), Rat(t0.e * z.n, t0.w * z.d))
                /\ EqRat(Rat(transform.c, transform.w), Rat(t0.c, t0.w))
                /\ EqRat(Rat(transform.f, transform.w), Rat(t0.f, t0.w))

\* A raster whose origin is not (0, 0) is open under a zoom factor other than
\* 1.0: its top edge stays at f while its bottom edge moves.
C7_Witness ==
    /\ pc = "opened"
    /\ ~EqRat(zoom_factor, Rat(1, 1))
    /\ RasterFile(dates[di]).transform.f # 0
    /\ EqRat(adjusted_bounds[4], Rat(RasterFile(dates[di]).transform.f, 1))
    /\ ~EqRat(adjusted_bounds[2], Rat(0, 1))

\* -------------------------------------------------------------------- C8
\* C8: once the raster or the ground-truth table of a date could not be
\* opened, the run is aborted at that date: exactly the earlier dates were
\* processed, no raster stays open, the output file is not written and no
\* statistics or plots are produced.
C8_OpenFailureAborts ==
    failed # 0 =>
        /\ pc = "aborted"
        /\ di = failed
        /\ Len(combined_data) = failed - 1
        /\ open_rasters = << >>
        /\ output_file = << >>
        /\ stats = << >>
        /\ plots = 0

\* The second date's file could not be opened after the first date had
\* yielded records.
C8_Witness ==
    /\ failed = 2
    /\ pc = "aborted"
    /\ Len(combined_data) = 1
    /\ combined_data[1] # << >>

\* -------------------------------------------------------------------- C9
\* C9: when a date has been processed its raster was opened once and exactly
\* three full-band reads were performed on it, whatever the number of
\* ground-truth rows; and at most one raster is open at any time.
C9_ThreeReadsPerDate ==
    /\ Len(open_rasters) <= 1
    /\ LoopDone => io.opens = 1 /\ io.reads = 3

\* ------------------------------------------------------------------- C10
\* C10: the printed 'Out of bounds' count is 0 and 'Total points' equals
\* 'Valid points' (0 when no record is retained), because no record that
\* reaches post-processing has a missing 'Pixel Col'.
C10_OutOfBoundsCountIsZero ==
    /\ \A rec \in TableRecords(training_dataset) : "Pixel Col" \notin rec.na
    /\ \A k \in DOMAIN stats :
          /\ stats[k].out_of_bounds_points = 0
          /\ stats[k].total_points = stats[k].valid_points
          /\ stats[k].valid_points = Len(training_dataset)
          /\ training_dataset = << >> => stats[k].total_points = 0

\* The statistics were printed for a retained record of the first raster
\* under zoom 1.0 that came second in its ground-truth table, the row before
\* it having been skipped (there, only the coordinate check skips a row of
\* GTRows).
C10_Witness ==
    /\ stats # << >>
    /\ zoom_factor = Rat(1, 1)
    /\ \E rec \in TableRecords(training_dataset) :
          /\ rec.Date = dates_to_process[1]
          /\ rec.gt = 2
          /\ \A other \in TableRecords(Concat(combined_data)) :
                other.Date = rec.Date => other.gt # 1

====
